---- MODULE Spec2Model ----
(***************************************************************************)
(* A model of pywinctl: the Window proxy (_main.py), the OS adapter        *)
(* (_win_api.py) and the operating system's window table, which an         *)
(* external actor changes concurrently.  One client thread calls the       *)
(* public operations; every platform call is one step, so that the         *)
(* external actor can act between a validity check and the call it guards. *)
(***************************************************************************)
EXTENDS Integers, Sequences, FiniteSets, TLC

\* ---------------------------------------------------------------- bounds
\* Number of top-level windows that exist initially (handles 1..NumWindows).
NumWindows == 2
\* Longest timeout passed to wait_for_active, in sleep intervals (0.05 s).
MaxTimeout == 2

\* ------------------------------------------------------------- constants
\* The null handle: `not self._hwnd` / `hwnd == 0`.
NULL_HWND == 0
\* e.winerror == 1400: invalid window handle.
ERROR_INVALID_WINDOW_HANDLE == 1400
\* e.winerror == 5: access denied.
ERROR_ACCESS_DENIED == 5
\* A representative of every other non-zero platform error code (the
\* fall-through of the adapters' handlers); 87 is ERROR_INVALID_PARAMETER.
ERROR_OTHER == 87
\* A platform call that succeeded.
NO_ERROR == 0
\* The hWndInsertAfter values passed to SetWindowPos.
HWND_TOP == 0
HWND_TOPMOST == -1
HWND_NOTOPMOST == -2
\* WindowsAPIError.error_code when the constructor is given no code (None).
NoCode == -1

Handles == 1..NumWindows

\* The window whose proxy the client holds (self._hwnd); the other windows
\* are the ones that hold, or take, the focus.
Target == 1

\* Codes with which a platform call on a live window can still be rejected.
FaultCodes == {ERROR_ACCESS_DENIED, ERROR_OTHER}

VARIABLES
    \* --- the operating system's window table (external, uncontrolled)
    live,        \* handles for which IsWindow is true
    fg,          \* GetForegroundWindow(): a handle, or NULL_HWND
    iconic,      \* minimized windows (IsIconic)
    ztop,        \* the window on top of the z-order, or NULL_HWND
    attached,    \* thread ids whose input is attached to the calling thread
    \* --- the client thread
    pc,          \* position of the client in the operation it runs
    op,          \* the public operation in progress
    hwnd,        \* self._hwnd of the proxy the operation is called on
    args,        \* the operation's arguments
    result,      \* what the finished operation gave its caller
    api_result,  \* what the adapter function gave the Window method
    trace,       \* the platform calls made by the operation so far
    \* --- locals of set_foreground_window
    target_thread_id,
    current_foreground_hwnd,
    foreground_thread_id,
    exc,         \* exception pending while the finally block runs
    \* --- locals of get_all_windows
    all_gw_windows,
    windows,
    \* --- geometry of the proxy's window
    rect,        \* GetWindowRect(Target): <<left, top, right, bottom>>
    moved,       \* history: <<x, y>> the client last placed the window at, <<>> once
                 \* anything else may have changed its position
    sized,       \* history: <<w, h>> the client last sized the window to, or <<>>
    topmost,     \* the windows that have the always-on-top status
    \* --- titles, and the locals of get_window_by_title
    title,       \* GetWindowText of every window
    found_gw,    \* the candidate get_window_by_title settled on, or NULL_HWND
    \* --- wait_for_active
    polls,       \* iterations of the polling loop so far
    elapsed,     \* time.monotonic() - start_time, in sleep intervals (0.05 s)
    held,        \* history: the proxy's window was live and the foreground
                 \* window when wait_for_active was called, and has been since
    \* --- effects outside the window system
    effects,     \* threads started, directories and files created, downloads, processes
    l_test_pc    \* position of the thread started by get_win_test

osVars   == <<live, fg, iconic, ztop, attached>>
callVars == <<op, hwnd, args>>
outVars  == <<result, api_result>>
fgVars   == <<target_thread_id, current_foreground_hwnd, foreground_thread_id, exc>>
enumVars == <<all_gw_windows, windows>>
geomVars == <<rect, moved, sized, topmost>>
findVars == <<title, found_gw>>
waitVars == <<polls, elapsed, held>>
sideVars == <<effects, l_test_pc>>
vars     == <<live, fg, iconic, ztop, attached, pc, op, hwnd, args, result, api_result,
              trace, target_thread_id, current_foreground_hwnd, foreground_thread_id, exc,
              all_gw_windows, windows, rect, moved, sized, topmost, title, found_gw, polls,
              elapsed, held,
              effects, l_test_pc>>

\* ------------------------------------------------------------ exceptions
Exc(kind, code) == [kind |-> kind, code |-> code]
NoExc == Exc("none", NoCode)

\* class hierarchy of _exceptions.py (and the builtins / library classes used)
Bases(kind) ==
    CASE kind = "InvalidWindowError"  -> {"InvalidWindowError", "PyWinCtlError", "Exception"}
      [] kind = "WindowsAPIError"     -> {"WindowsAPIError", "PyWinCtlError", "Exception"}
      [] kind = "WindowNotFoundError" -> {"WindowNotFoundError", "PyWinCtlError", "Exception"}
      [] kind = "PyWinCtlError"       -> {"PyWinCtlError", "Exception"}
      [] OTHER                        -> {kind, "Exception"}

\* The names _main.py can resolve: its imports (line 8 imports three of the
\* four exception classes; PyWinCtlError is not among them), the classes it
\* reaches through the gw and api modules, and the builtins.
MainNamespace ==
    {"WindowNotFoundError", "InvalidWindowError", "WindowsAPIError",
     "gw.PyGetWindowException", "pywintypes.error",
     "Exception", "ValueError", "TypeError", "AttributeError"}

\* A try statement's except clauses, each a set of class names, tried in
\* order against exception e.  Python evaluates a clause's class expression
\* before matching it: an unresolved name raises NameError in place of e.
\* Result: the index of the clause that handles e, 0 when e propagates,
\* -1 when evaluating a clause raised NameError.
TryExcept(clauses, e) ==
    LET bad(i)  == \E n \in clauses[i] : n \notin MainNamespace
        hit(i)  == clauses[i] \cap Bases(e.kind) # {}
        S       == {i \in 1..Len(clauses) : bad(i) \/ hit(i)}
        first   == CHOOSE i \in S : \A j \in S : i <= j
    IN  IF S = {} THEN 0 ELSE IF bad(first) THEN -1 ELSE first

\* `raise PyWinCtlError(...)` inside _main.py: the name is looked up first.
RaisePyWinCtlError ==
    IF "PyWinCtlError" \in MainNamespace THEN Exc("PyWinCtlError", NoCode)
                                          ELSE Exc("NameError", NoCode)

\* --------------------------------------------------------------- results
Ret(v)    == [kind |-> "ok", code |-> NoCode, value |-> v]
Raised(e) == [kind |-> e.kind, code |-> e.code, value |-> "None"]
NoResult  == [kind |-> "none", code |-> NoCode, value |-> "None"]

\* An adapter function's outcome: a returned value or a raised exception.
Returns(v) == [exc |-> NoExc, value |-> v]
Raises(e)  == [exc |-> e, value |-> "None"]
\* No adapter function has run to its end.
NoApi      == [exc |-> NoExc, value |-> "none"]

\* One entry of the log of platform calls: function, handle (or thread id),
\* the error code it was rejected with (NO_ERROR: it succeeded) and, for
\* IsWindow / GetForegroundWindow, the value returned.
Entry(f, h, r, v) == [f |-> f, h |-> h, r |-> r, v |-> v]

\* ------------------------------------------------------ the platform (OS)
\* What a platform call that takes window handle h can report: a destroyed
\* window is reported with the invalid-handle code; a live one is served,
\* or rejected (access denied, or some other failure).
Outcomes(h) ==
    IF h \in live THEN {NO_ERROR} \cup FaultCodes
                  ELSE {ERROR_INVALID_WINDOW_HANDLE}

\* win32gui.IsWindow(h): a predicate, it never raises.
IsWindow(h) == h \in live

\* _get_last_error(): the calling thread's last-error code, read right after
\* the platform call that was rejected with code c.
GetLastError(c) == c

\* The external actor destroys window h (its owner closes it).  The focus
\* then goes to some other live window or to no window.
Destroy(h) ==
    /\ h \in live
    /\ live' = live \ {h}
    /\ iconic' = iconic \ {h}
    /\ ztop' = IF ztop = h THEN NULL_HWND ELSE ztop
    /\ \E f \in (live \ {h}) \cup {NULL_HWND} :
          fg' = IF fg = h THEN f ELSE fg
    /\ held' = (held /\ Target \in live' /\ fg' = Target)
    /\ UNCHANGED <<attached, pc, callVars, outVars, trace, fgVars, enumVars>>
    /\ UNCHANGED <<geomVars, findVars, polls, elapsed, sideVars>>

\* The external actor (the user, another process) moves the focus; the
\* window that receives it is raised to the top of the z-order.
FocusChange(h) ==
    /\ h \in live \cup {NULL_HWND}
    /\ h # fg
    /\ fg' = h
    /\ ztop' = IF h = NULL_HWND THEN ztop ELSE h
    /\ held' = (held /\ h = Target)
    /\ UNCHANGED <<live, iconic, attached, pc, callVars, outVars, trace,
                   fgVars, enumVars>>
    /\ UNCHANGED <<geomVars, findVars, polls, elapsed, sideVars>>

\* ----------------------------------------------------- the OS adapter
\* _raise_win_api_error: WindowsAPIError carrying GetLastError().
raise_win_api_error(c) == Raises(Exc("WindowsAPIError", GetLastError(c)))

\* What each adapter function does with pywintypes.error 1400.
InvalidHandleResult(fn) ==
    CASE fn = "close_window" -> Returns("None")
      [] fn \in {"is_window_visible", "is_minimized", "is_maximized"} -> Returns("False")
      [] OTHER -> Raises(Exc("InvalidWindowError", NoCode))

\* The adapter functions whose handler has an `if e.winerror == 5` branch.
HandlesAccessDenied(fn) ==
    fn \in {"show_window", "set_always_on_top", "set_foreground_window"}

\* `except pywintypes.error as e:` of adapter function fn, after its platform
\* call reported c; v is the value returned when the call succeeded.
AdapterExcept(fn, c, v) ==
    IF c = NO_ERROR THEN Returns(v)
    ELSE IF c = ERROR_INVALID_WINDOW_HANDLE THEN InvalidHandleResult(fn)
    ELSE IF c = ERROR_ACCESS_DENIED /\ HandlesAccessDenied(fn)
         THEN Raises(Exc("WindowsAPIError", c))
    ELSE raise_win_api_error(c)

\* A check that queries the platform for every handle, zero included.
check_hwnd_calls_unguarded(h) ==
    <<Entry("IsWindow", h, NO_ERROR, IF IsWindow(h) THEN 1 ELSE 0)>>

\* The platform calls _check_hwnd(h) makes: `hwnd == 0` is tested first, and
\* win32gui.IsWindow is called only for a non-zero handle.
check_hwnd_calls(h) ==
    IF h = NULL_HWND THEN <<>>
    ELSE <<Entry("IsWindow", h, NO_ERROR, IF IsWindow(h) THEN 1 ELSE 0)>>

\* _check_hwnd(h): no platform call for a zero handle.
check_hwnd(h) ==
    IF h = NULL_HWND \/ ~IsWindow(h)
    THEN Raises(Exc("InvalidWindowError", NoCode))
    ELSE Returns("None")

\* ----------------------------------------------------- the Window proxy
Getters  == {"hwnd", "title", "position", "size", "box", "is_active",
             "is_minimized", "is_maximized", "is_visible", "process_id",
             "class_name"}
Mutators == {"move_to", "resize_to", "move_resize", "minimize", "maximize",
             "restore", "activate", "hide", "show", "set_title",
             "set_always_on_top"}
ProxyMethods == Getters \cup Mutators \cup {"close"}
PublicOps == ProxyMethods \cup {"__repr__", "get_all_windows"}

\* The Window method an operation starts with (__repr__ reads self.title).
Method(o) == IF o = "__repr__" THEN "title" ELSE o

\* The adapter function a method delegates to.
AdapterOf(m) ==
    CASE m = "title" -> "get_window_title"
      [] m \in {"position", "size", "box"} -> "get_window_rect"
      [] m = "is_active" -> "get_active_window_hwnd"
      [] m = "is_minimized" -> "is_minimized"
      [] m = "is_maximized" -> "is_maximized"
      [] m = "is_visible" -> "is_window_visible"
      [] m = "process_id" -> "get_window_thread_process_id"
      [] m = "class_name" -> "get_window_classname"
      [] m = "move_to" -> "move_window"
      [] m = "resize_to" -> "resize_window"
      [] m = "move_resize" -> "set_window_pos"
      [] m \in {"minimize", "maximize", "restore", "hide", "show"} -> "show_window"
      [] m = "close" -> "close_window"
      [] m = "set_title" -> "set_window_title"
      [] m = "set_always_on_top" -> "set_always_on_top"
      [] m = "activate" -> "set_foreground_window"
      [] OTHER -> "none"

\* The platform function an adapter function calls.
PlatformFn(fn) ==
    CASE fn = "get_window_title" -> "GetWindowText"
      [] fn = "get_window_rect" -> "GetWindowRect"
      [] fn = "get_active_window_hwnd" -> "GetForegroundWindow"
      [] fn = "is_minimized" -> "IsIconic"
      [] fn = "is_maximized" -> "IsZoomed"
      [] fn = "is_window_visible" -> "IsWindowVisible"
      [] fn = "get_window_thread_process_id" -> "GetWindowThreadProcessId"
      [] fn = "get_window_classname" -> "GetClassName"
      [] fn \in {"move_window", "resize_window", "set_window_pos",
                 "set_always_on_top"} -> "SetWindowPos"
      [] fn = "show_window" -> "ShowWindowAsync"
      [] fn = "close_window" -> "PostMessage"
      [] fn = "set_window_title" -> "SetWindowText"
      [] OTHER -> "none"

\* The platform calls Window._validate_hwnd makes: `not self._hwnd or not
\* IsWindow(self._hwnd)` stops at the first operand for a zero handle.
validate_hwnd_calls(h) ==
    IF h = NULL_HWND THEN <<>>
    ELSE <<Entry("IsWindow", h, NO_ERROR, IF IsWindow(h) THEN 1 ELSE 0)>>

\* A validity check that only rejects the null handle.
validate_hwnd_null_only(h) ==
    IF h = NULL_HWND THEN Raises(Exc("InvalidWindowError", NoCode))
                     ELSE Returns("None")

\* Window._validate_hwnd: `not self._hwnd or not IsWindow(self._hwnd)`.
validate_hwnd(h) ==
    IF h = NULL_HWND \/ ~IsWindow(h)
    THEN Raises(Exc("InvalidWindowError", NoCode))
    ELSE Returns("None")

\* `if width <= 0 or height <= 0: raise ValueError` of resize_to, move_resize.
ArgsRejected(m, a) ==
    m \in {"resize_to", "move_resize"} /\ (a.width <= 0 \/ a.height <= 0)

\* The try statement of Window method m, given exception e of the adapter:
\*   except (InvalidWindowError, WindowsAPIError) as e: ...
\*   except Exception as e: ...
ProxyExcept(m, e) ==
    LET i == TryExcept(<<{"InvalidWindowError", "WindowsAPIError"}, {"Exception"}>>, e)
    IN  IF i = -1 THEN Raised(Exc("NameError", NoCode))
        ELSE IF i = 0 THEN Raised(e)
        ELSE IF m \in {"process_id", "class_name"} THEN Ret("None")
        ELSE IF i = 2 THEN Raised(RaisePyWinCtlError)
        ELSE IF m = "close" /\ e.kind = "InvalidWindowError" THEN Ret("None")
        ELSE Raised(e)

\* Window.position: rect[0], rect[1] of get_window_rect's tuple.
position(r) == <<r[1], r[2]>>
\* Window.size: rect[2] - rect[0], rect[3] - rect[1].
size(r) == <<r[3] - r[1], r[4] - r[2]>>
\* Window.box: rect[0], rect[1], width, height.
box(r) == <<r[1], r[2], r[3] - r[1], r[4] - r[2]>>

\* What method m makes of the value v its adapter function returned.
ProxyValue(m, v) ==
    CASE m = "position" -> position(v)
      [] m = "size" -> size(v)
      [] m = "box" -> box(v)
      [] OTHER -> v

\* What method m gives its caller, given outcome r of the adapter function.
ProxyResult(m, r) ==
    IF r.exc = NoExc THEN Ret(ProxyValue(m, r.value)) ELSE ProxyExcept(m, r.exc)

\* Window.__repr__: `except (InvalidWindowError, PyWinCtlError)` around
\* self.title; a failed title read is replaced by a placeholder.
repr(res) ==
    IF res.kind = "ok" THEN Ret("repr")
    ELSE LET i == TryExcept(<<{"InvalidWindowError", "PyWinCtlError"}>>,
                            Exc(res.kind, res.code))
         IN  IF i = -1 THEN Raised(Exc("NameError", NoCode))
             ELSE IF i = 0 THEN res
             ELSE Ret("repr")

\* The public operation ends: res is what its Window method produced, api
\* what the adapter function it called produced.
Finish(res, api) ==
    /\ pc' = "done"
    /\ result' = IF op = "__repr__" THEN repr(res) ELSE res
    /\ api_result' = api

\* The value a successful platform query returns to the adapter.
QueryValue(m) ==
    CASE m = "is_minimized" -> IF hwnd \in iconic THEN "True" ELSE "False"
      [] m = "is_active" -> IF fg = hwnd THEN "True" ELSE "False"
      [] m \in {"position", "size", "box"} -> rect
      [] m \in Mutators \cup {"close"} -> "None"
      [] OTHER -> "val"

\* win32gui.SetWindowPos on a window whose rectangle is r: the position is
\* replaced unless SWP_NOMOVE is given, the size unless SWP_NOSIZE is given.
SetWindowPos(r, x, y, cx, cy, flags) ==
    LET l == IF "SWP_NOMOVE" \in flags THEN r[1] ELSE x
        t == IF "SWP_NOMOVE" \in flags THEN r[2] ELSE y
        w == IF "SWP_NOSIZE" \in flags THEN r[3] - r[1] ELSE cx
        h == IF "SWP_NOSIZE" \in flags THEN r[4] - r[2] ELSE cy
    IN  <<l, t, l + w, t + h>>

\* resize_window with the SWP_NOMOVE flag left out.
resize_window_flags_moving == {"SWP_NOZORDER", "SWP_NOACTIVATE"}

\* flags = SWP_NOMOVE | SWP_NOZORDER | SWP_NOACTIVATE of resize_window.
resize_window_flags == {"SWP_NOMOVE", "SWP_NOZORDER", "SWP_NOACTIVATE"}

\* move_window passing the position as the size.
move_window_args_swapped(a) == <<0, 0, a.x, a.y>>

\* The x, y, cx, cy that move_window passes to SetWindowPos.
move_window_args(a) == <<a.x, a.y, 0, 0>>

\* set_window_pos with the SWP_NOACTIVATE flag left out.
set_window_pos_flags_activating == {"SWP_NOZORDER"}

\* flags = SWP_NOZORDER | SWP_NOACTIVATE of set_window_pos.
set_window_pos_flags == {"SWP_NOZORDER", "SWP_NOACTIVATE"}

\* The flags each adapter function passes to SetWindowPos.
Flags(fn) ==
    CASE fn = "move_window" -> {"SWP_NOSIZE", "SWP_NOZORDER", "SWP_NOACTIVATE"}
      [] fn = "resize_window" -> resize_window_flags
      [] fn = "set_window_pos" -> set_window_pos_flags
      [] OTHER -> {"SWP_NOMOVE", "SWP_NOSIZE", "SWP_NOACTIVATE"}

\* The hWndInsertAfter each adapter function passes to SetWindowPos.
InsertAfter(fn, a) ==
    IF fn = "set_always_on_top"
    THEN IF a.enable THEN HWND_TOPMOST ELSE HWND_NOTOPMOST
    ELSE HWND_TOP

\* win32gui.SetWindowPos beyond the rectangle: the z-order changes unless
\* SWP_NOZORDER is given (the window goes to the top, or gains or loses the
\* topmost status), and the window is activated unless SWP_NOACTIVATE is
\* given.
TopmostAfter(h, after, flags) ==
    IF "SWP_NOZORDER" \in flags THEN topmost
    ELSE IF after = HWND_TOPMOST THEN topmost \cup {h}
    ELSE IF after = HWND_NOTOPMOST THEN topmost \ {h}
    ELSE topmost
ZTopAfter(h, after, flags) ==
    IF "SWP_NOZORDER" \notin flags /\ after \in {HWND_TOP, HWND_TOPMOST} THEN h ELSE ztop
ForegroundAfter(h, flags) ==
    IF "SWP_NOACTIVATE" \in flags THEN fg ELSE h

\* The x, y, cx, cy each adapter function passes to SetWindowPos.
PosArgs(fn, a) ==
    CASE fn = "move_window" -> move_window_args(a)
      [] fn = "resize_window" -> <<0, 0, a.width, a.height>>
      [] fn = "set_window_pos" -> <<a.x, a.y, a.width, a.height>>
      [] OTHER -> <<0, 0, 0, 0>>

\* The rectangle of the proxy's window after method m's platform call.
RectAfter(m) ==
    LET fn == AdapterOf(m)
        p  == PosArgs(fn, args)
    IN  IF PlatformFn(fn) = "SetWindowPos"
        THEN SetWindowPos(rect, p[1], p[2], p[3], p[4], Flags(fn))
        ELSE rect

\* The effect of a successful platform call of method m on the window table.
PlatformEffect(m) ==
    /\ rect' = RectAfter(m)
    /\ moved' = IF m \in {"move_to", "move_resize"} THEN <<args.x, args.y>> ELSE moved
    /\ sized' = IF m \in {"resize_to", "move_resize"} THEN <<args.width, args.height>>
                                                     ELSE sized
    /\ iconic' = CASE m = "minimize" -> iconic \cup {hwnd}
                   [] m \in {"maximize", "restore"} -> iconic \ {hwnd}
                   [] OTHER -> iconic
    /\ LET fn == AdapterOf(m)
           after == InsertAfter(fn, args)
       IN  IF PlatformFn(fn) = "SetWindowPos"
           THEN /\ topmost' = TopmostAfter(hwnd, after, Flags(fn))
                /\ ztop' = ZTopAfter(hwnd, after, Flags(fn))
                /\ fg' = ForegroundAfter(hwnd, Flags(fn))
           ELSE UNCHANGED <<topmost, ztop, fg>>
    /\ UNCHANGED <<live, attached>>

\* The arguments of a call that takes none (and the values of the arguments
\* a given operation does not take).
NoArgs == [x |-> 0, y |-> 0, width |-> 1, height |-> 1, enable |-> TRUE,
           title |-> <<>>, exact_match |-> FALSE, timeout |-> 1]

\* Arguments a caller may pass.
Dims == {-1, 0, 1}
ArgSets(o) ==
    IF o \in {"resize_to", "move_resize"}
    THEN {[NoArgs EXCEPT !.width = w, !.height = h] : w \in Dims, h \in Dims}
    ELSE IF o = "set_always_on_top"
    THEN {[NoArgs EXCEPT !.enable = b] : b \in BOOLEAN}
    ELSE {NoArgs}

\* The client calls public operation o on its proxy, whose window was valid
\* when the proxy was constructed.
Call(o, a) ==
    /\ pc = "idle"
    /\ o \in PublicOps \ {"get_all_windows"}
    /\ op' = o /\ hwnd' = Target /\ args' = a
    /\ pc' = "validate"
    /\ trace' = <<>>
    /\ result' = NoResult /\ api_result' = NoApi
    /\ UNCHANGED <<osVars, fgVars, enumVars>>
    /\ UNCHANGED <<geomVars, findVars, waitVars, sideVars>>

\* self._validate_hwnd(), then the argument check, of every Window method.
Validate ==
    /\ pc = "validate"
    /\ LET m == Method(op)
           r == validate_hwnd(hwnd)
       IN  /\ trace' = trace \o validate_hwnd_calls(hwnd)
           /\ IF r.exc # NoExc THEN Finish(Raised(r.exc), NoApi)
              ELSE IF ArgsRejected(m, args)
                   THEN Finish(Raised(Exc("ValueError", NoCode)), NoApi)
              ELSE IF m = "hwnd" THEN Finish(Ret("hwnd"), NoApi)
              ELSE /\ pc' = IF m = "is_active" THEN "call" ELSE "check"
                   /\ UNCHANGED outVars
    /\ UNCHANGED <<osVars, callVars, fgVars, enumVars>>
    /\ UNCHANGED <<geomVars, findVars, waitVars, sideVars>>

\* _check_hwnd(hwnd), the first statement of the adapter function.
Check ==
    /\ pc = "check"
    /\ LET m == Method(op)
           r == check_hwnd(hwnd)
       IN  /\ trace' = trace \o check_hwnd_calls(hwnd)
           /\ IF r.exc # NoExc THEN Finish(ProxyResult(m, r), r)
              ELSE /\ pc' = IF m = "activate" THEN "fg_tid" ELSE "call"
                   /\ UNCHANGED outVars
    /\ UNCHANGED <<osVars, callVars, fgVars, enumVars>>
    /\ UNCHANGED <<geomVars, findVars, waitVars, sideVars>>

\* The platform call of the adapter function, its error handler, and the
\* handler of the Window method around it.
PlatformCall ==
    /\ pc = "call"
    /\ LET m  == Method(op)
           fn == AdapterOf(m)
       IN  IF fn = "get_active_window_hwnd"
           THEN /\ trace' = Append(trace, Entry("GetForegroundWindow", NULL_HWND, NO_ERROR, fg))
                /\ Finish(ProxyResult(m, Returns(QueryValue(m))), Returns(QueryValue(m)))
                /\ UNCHANGED <<osVars, geomVars>>
           ELSE \E c \in Outcomes(hwnd) :
                /\ trace' = Append(trace, Entry(PlatformFn(fn), hwnd, c, 0))
                /\ Finish(ProxyResult(m, AdapterExcept(fn, c, QueryValue(m))),
                          AdapterExcept(fn, c, QueryValue(m)))
                /\ IF c = NO_ERROR THEN PlatformEffect(m)
                                   ELSE UNCHANGED <<osVars, geomVars>>
    /\ UNCHANGED <<callVars, fgVars, enumVars, findVars, waitVars, sideVars>>

\* The operation has returned (or raised); the client is free again.
Return ==
    /\ pc = "done"
    /\ pc' = "idle"
    /\ trace' = <<>>
    /\ result' = NoResult /\ api_result' = NoApi
    /\ op' = "none" /\ hwnd' = NULL_HWND /\ args' = NoArgs
    /\ target_thread_id' = 0 /\ current_foreground_hwnd' = -1
    /\ foreground_thread_id' = 0 /\ exc' = NoExc
    /\ all_gw_windows' = <<>> /\ windows' = <<>>
    /\ found_gw' = NULL_HWND /\ polls' = 0 /\ elapsed' = 0 /\ held' = FALSE
    /\ UNCHANGED <<osVars, geomVars, title, sideVars>>

\* ------------------------------------------- set_foreground_window(hwnd)
\* The thread that created window h (each window has a thread of its own).
ThreadOf(h) == h

\* What AttachThreadInput can report for thread t: the thread of a live
\* window is attached, or the call is rejected; the thread of a destroyed
\* window may have outlived it, or be gone.
ThreadOutcomes(t) ==
    IF t \in live THEN {NO_ERROR} \cup FaultCodes
                  ELSE {NO_ERROR, ERROR_OTHER}

\* The comparison with the early return left out.
AlreadyForeground_never(h, cur) == FALSE

\* `if hwnd == current_foreground_hwnd: return`
AlreadyForeground(h, cur) == h = cur

\* The handlers of set_foreground_window's outer try statement:
\*   except pywintypes.error as e: 1400 / 5 / _raise_win_api_error
\*   except Exception as e: raise WindowsAPIError(message)   (no error code)
set_foreground_window_except(e) ==
    IF e.kind = "pywintypes.error"
    THEN AdapterExcept("set_foreground_window", e.code, "None")
    ELSE Raises(Exc("WindowsAPIError", NoCode))

\* set_foreground_window ends with exception e before the inner try
\* statement is entered (no finally block runs).
FgRaise(e) ==
    Finish(ProxyResult("activate", set_foreground_window_except(e)),
           set_foreground_window_except(e))

\* target_thread_id, _ = win32process.GetWindowThreadProcessId(hwnd)
FgTargetThread ==
    /\ pc = "fg_tid"
    /\ \E c \in Outcomes(hwnd) :
        /\ trace' = Append(trace, Entry("GetWindowThreadProcessId", hwnd, c, 0))
        /\ IF c = NO_ERROR
           THEN /\ target_thread_id' = ThreadOf(hwnd)
                /\ pc' = "fg_getfg"
                /\ UNCHANGED outVars
           ELSE /\ FgRaise(Exc("pywintypes.error", c))
                /\ UNCHANGED target_thread_id
    /\ UNCHANGED <<osVars, callVars, current_foreground_hwnd, foreground_thread_id,
                   exc, enumVars>>
    /\ UNCHANGED <<geomVars, findVars, waitVars, sideVars>>

\* current_foreground_hwnd = GetForegroundWindow(); return if it is hwnd.
FgGetForeground ==
    /\ pc = "fg_getfg"
    /\ trace' = Append(trace, Entry("GetForegroundWindow", NULL_HWND, NO_ERROR, fg))
    /\ current_foreground_hwnd' = fg
    /\ IF AlreadyForeground(hwnd, fg)
       THEN Finish(ProxyResult("activate", Returns("None")), Returns("None"))
       ELSE pc' = "fg_fgtid" /\ UNCHANGED outVars
    /\ UNCHANGED <<osVars, callVars, target_thread_id, foreground_thread_id, exc,
                   enumVars>>
    /\ UNCHANGED <<geomVars, findVars, waitVars, sideVars>>

\* foreground_thread_id, _ = GetWindowThreadProcessId(current_foreground_hwnd)
FgForegroundThread ==
    /\ pc = "fg_fgtid"
    /\ \E c \in Outcomes(current_foreground_hwnd) :
        /\ trace' = Append(trace, Entry("GetWindowThreadProcessId",
                                        current_foreground_hwnd, c, 0))
        /\ IF c = NO_ERROR
           THEN /\ foreground_thread_id' = ThreadOf(current_foreground_hwnd)
                /\ pc' = "fg_attach1"
                /\ UNCHANGED outVars
           ELSE /\ FgRaise(Exc("pywintypes.error", c))
                /\ UNCHANGED foreground_thread_id
    /\ UNCHANGED <<osVars, callVars, target_thread_id, current_foreground_hwnd, exc,
                   enumVars>>
    /\ UNCHANGED <<geomVars, findVars, waitVars, sideVars>>

\* AttachThreadInput(foreground_thread_id, current_thread_id, True)
FgAttachForeground ==
    /\ pc = "fg_attach1"
    /\ \E c \in ThreadOutcomes(foreground_thread_id) :
        /\ trace' = Append(trace, Entry("AttachThreadInput", foreground_thread_id, c, 1))
        /\ IF c = NO_ERROR
           THEN /\ attached' = attached \cup {foreground_thread_id}
                /\ pc' = "fg_attach2"
                /\ UNCHANGED outVars
           ELSE /\ FgRaise(Exc("pywintypes.error", c))
                /\ UNCHANGED attached
    /\ UNCHANGED <<live, fg, iconic, ztop, callVars, fgVars, enumVars>>
    /\ UNCHANGED <<geomVars, findVars, waitVars, sideVars>>

\* AttachThreadInput(target_thread_id, current_thread_id, True); the inner
\* try statement starts after it.
FgAttachTarget ==
    /\ pc = "fg_attach2"
    /\ \E c \in ThreadOutcomes(target_thread_id) :
        /\ trace' = Append(trace, Entry("AttachThreadInput", target_thread_id, c, 1))
        /\ IF c = NO_ERROR
           THEN /\ attached' = attached \cup {target_thread_id}
                /\ pc' = "fg_iconic"
                /\ UNCHANGED outVars
           ELSE /\ FgRaise(Exc("pywintypes.error", c))
                /\ UNCHANGED attached
    /\ UNCHANGED <<live, fg, iconic, ztop, callVars, fgVars, enumVars>>
    /\ UNCHANGED <<geomVars, findVars, waitVars, sideVars>>

\* An exception inside the inner try statement: the finally block runs next.
FgFinally(e) ==
    /\ exc' = e
    /\ pc' = "fg_detach1"
    /\ UNCHANGED outVars

\* if win32gui.IsIconic(hwnd): ... else: ...
FgIsIconic ==
    /\ pc = "fg_iconic"
    /\ \E c \in Outcomes(hwnd) :
        /\ trace' = Append(trace, Entry("IsIconic", hwnd, c, 0))
        /\ IF c = NO_ERROR
           THEN /\ pc' = IF hwnd \in iconic THEN "fg_show_check" ELSE "fg_top"
                /\ UNCHANGED <<outVars, exc>>
           ELSE FgFinally(Exc("pywintypes.error", c))
    /\ UNCHANGED <<osVars, callVars, target_thread_id, current_foreground_hwnd,
                   foreground_thread_id, enumVars>>
    /\ UNCHANGED <<geomVars, findVars, waitVars, sideVars>>

\* show_window(hwnd, SW_RESTORE): its _check_hwnd.
FgShowCheck ==
    /\ pc = "fg_show_check"
    /\ trace' = Append(trace, Entry("IsWindow", hwnd, NO_ERROR,
                                    IF IsWindow(hwnd) THEN 1 ELSE 0))
    /\ LET r == check_hwnd(hwnd)
       IN  IF r.exc = NoExc
           THEN pc' = "fg_show" /\ UNCHANGED <<outVars, exc>>
           ELSE FgFinally(r.exc)
    /\ UNCHANGED <<osVars, callVars, target_thread_id, current_foreground_hwnd,
                   foreground_thread_id, enumVars>>
    /\ UNCHANGED <<geomVars, findVars, waitVars, sideVars>>

\* show_window(hwnd, SW_RESTORE): ShowWindowAsync and show_window's handler.
FgShowWindow ==
    /\ pc = "fg_show"
    /\ \E c \in Outcomes(hwnd) :
        /\ trace' = Append(trace, Entry("ShowWindowAsync", hwnd, c, 0))
        /\ LET r == AdapterExcept("show_window", c, "None")
           IN  IF r.exc = NoExc
               THEN /\ iconic' = iconic \ {hwnd}
                    /\ pc' = "fg_setfg"
                    /\ UNCHANGED <<outVars, exc>>
               ELSE /\ FgFinally(r.exc)
                    /\ UNCHANGED iconic
    /\ UNCHANGED <<live, fg, ztop, attached, callVars, target_thread_id,
                   current_foreground_hwnd, foreground_thread_id, enumVars>>
    /\ UNCHANGED <<geomVars, findVars, waitVars, sideVars>>

\* SetWindowPos(hwnd, HWND_TOP, 0, 0, 0, 0, NOSIZE | NOMOVE | NOACTIVATE)
FgRaiseToTop ==
    /\ pc = "fg_top"
    /\ \E c \in Outcomes(hwnd) :
        /\ trace' = Append(trace, Entry("SetWindowPos", hwnd, c, 0))
        /\ IF c = NO_ERROR
           THEN /\ ztop' = hwnd
                /\ pc' = "fg_setfg"
                /\ UNCHANGED <<outVars, exc>>
           ELSE /\ FgFinally(Exc("pywintypes.error", c))
                /\ UNCHANGED ztop
    /\ UNCHANGED <<live, fg, iconic, attached, callVars, target_thread_id,
                   current_foreground_hwnd, foreground_thread_id, enumVars>>
    /\ UNCHANGED <<geomVars, findVars, waitVars, sideVars>>

\* win32gui.SetForegroundWindow(hwnd): the request is accepted; the system
\* then grants the focus or refuses it.
FgSetForeground ==
    /\ pc = "fg_setfg"
    /\ \E c \in Outcomes(hwnd) :
        /\ trace' = Append(trace, Entry("SetForegroundWindow", hwnd, c, 0))
        /\ IF c = NO_ERROR
           THEN /\ \/ fg' = hwnd /\ ztop' = hwnd
                   \/ UNCHANGED <<fg, ztop>>
                /\ pc' = "fg_verify1"
                /\ UNCHANGED <<outVars, exc>>
           ELSE /\ FgFinally(Exc("pywintypes.error", c))
                /\ UNCHANGED <<fg, ztop>>
    /\ UNCHANGED <<live, iconic, attached, callVars, target_thread_id,
                   current_foreground_hwnd, foreground_thread_id, enumVars>>
    /\ UNCHANGED <<geomVars, findVars, waitVars, sideVars>>

\* time.sleep(0.05); if win32gui.GetForegroundWindow() != hwnd: ...
FgVerify ==
    /\ pc = "fg_verify1"
    /\ trace' = Append(trace, Entry("GetForegroundWindow", NULL_HWND, NO_ERROR, fg))
    /\ pc' = IF fg # hwnd THEN "fg_bring" ELSE "fg_detach1"
    /\ UNCHANGED <<osVars, callVars, outVars, fgVars, enumVars>>
    /\ UNCHANGED <<geomVars, findVars, waitVars, sideVars>>

\* The fallback: win32gui.BringWindowToTop(hwnd).
FgBringToTop ==
    /\ pc = "fg_bring"
    /\ \E c \in Outcomes(hwnd) :
        /\ trace' = Append(trace, Entry("BringWindowToTop", hwnd, c, 0))
        /\ IF c = NO_ERROR
           THEN /\ ztop' = hwnd
                /\ \E f \in {fg, hwnd} : fg' = f
                /\ pc' = "fg_verify2"
                /\ UNCHANGED <<outVars, exc>>
           ELSE /\ FgFinally(Exc("pywintypes.error", c))
                /\ UNCHANGED <<fg, ztop>>
    /\ UNCHANGED <<live, iconic, attached, callVars, target_thread_id,
                   current_foreground_hwnd, foreground_thread_id, enumVars>>
    /\ UNCHANGED <<geomVars, findVars, waitVars, sideVars>>

\* A final check that raises when the focus was refused.
FinalCheck_raises(matched) ==
    IF matched THEN NoExc ELSE Exc("WindowsAPIError", NoCode)

\* What the final check does when the foreground handle is still not hwnd:
\* it prints a warning and goes on to the finally block.
FinalCheck(matched) == NoExc

\* time.sleep(0.05); the final GetForegroundWindow() check.
FgVerifyAgain ==
    /\ pc = "fg_verify2"
    /\ trace' = Append(trace, Entry("GetForegroundWindow", NULL_HWND, NO_ERROR, fg))
    /\ exc' = FinalCheck(fg = hwnd)
    /\ pc' = "fg_detach1"
    /\ UNCHANGED <<osVars, callVars, outVars, target_thread_id,
                   current_foreground_hwnd, foreground_thread_id, enumVars>>
    /\ UNCHANGED <<geomVars, findVars, waitVars, sideVars>>

\* finally: AttachThreadInput(target_thread_id, current_thread_id, False).
\* An exception raised here replaces the pending one and ends the block.
FgDetachTarget ==
    /\ pc = "fg_detach1"
    /\ \E c \in ThreadOutcomes(target_thread_id) :
        /\ trace' = Append(trace, Entry("AttachThreadInput", target_thread_id, c, 0))
        /\ IF c = NO_ERROR
           THEN /\ attached' = attached \ {target_thread_id}
                /\ pc' = "fg_detach2"
                /\ UNCHANGED <<outVars, exc>>
           ELSE /\ FgRaise(Exc("pywintypes.error", c))
                /\ exc' = Exc("pywintypes.error", c)
                /\ UNCHANGED attached
    /\ UNCHANGED <<live, fg, iconic, ztop, callVars, target_thread_id,
                   current_foreground_hwnd, foreground_thread_id, enumVars>>
    /\ UNCHANGED <<geomVars, findVars, waitVars, sideVars>>

\* finally: AttachThreadInput(foreground_thread_id, current_thread_id, False);
\* then the pending exception, if any, reaches the outer handlers.
FgDetachForeground ==
    /\ pc = "fg_detach2"
    /\ \E c \in ThreadOutcomes(foreground_thread_id) :
        /\ trace' = Append(trace, Entry("AttachThreadInput", foreground_thread_id, c, 0))
        /\ IF c = NO_ERROR
           THEN /\ attached' = attached \ {foreground_thread_id}
                /\ IF exc = NoExc
                   THEN Finish(ProxyResult("activate", Returns("None")), Returns("None"))
                   ELSE FgRaise(exc)
                /\ UNCHANGED exc
           ELSE /\ FgRaise(Exc("pywintypes.error", c))
                /\ exc' = Exc("pywintypes.error", c)
                /\ UNCHANGED attached
    /\ UNCHANGED <<live, fg, iconic, ztop, callVars, target_thread_id,
                   current_foreground_hwnd, foreground_thread_id, enumVars>>
    /\ UNCHANGED <<geomVars, findVars, waitVars, sideVars>>

\* ------------------------------------------------------ get_all_windows()
RECURSIVE SortedSeq(_)
\* The windows of a set in enumeration order (here: by handle).
SortedSeq(S) ==
    IF S = {} THEN <<>>
    ELSE LET m == CHOOSE x \in S : \A y \in S : x <= y
         IN  <<m>> \o SortedSeq(S \ {m})

\* The client calls get_all_windows().
CallGetAllWindows ==
    /\ pc = "idle"
    /\ op' = "get_all_windows" /\ hwnd' = NULL_HWND /\ args' = NoArgs
    /\ pc' = "enum_list"
    /\ trace' = <<>>
    /\ result' = NoResult /\ api_result' = NoApi
    /\ UNCHANGED <<osVars, fgVars, enumVars>>
    /\ UNCHANGED <<geomVars, findVars, waitVars, sideVars>>

\* all_gw_windows = gw.getAllWindows(): a snapshot of the window table.
EnumList ==
    /\ pc = "enum_list"
    /\ all_gw_windows' = SortedSeq(live)
    /\ windows' = <<>>
    /\ trace' = Append(trace, Entry("EnumWindows", NULL_HWND, NO_ERROR, 0))
    /\ pc' = "enum_item"
    /\ UNCHANGED <<osVars, callVars, outVars, fgVars>>
    /\ UNCHANGED <<geomVars, findVars, waitVars, sideVars>>

\* Window(gw_win) inside the loop: the constructor's _validate_hwnd raised e.
\*   except (InvalidWindowError, ValueError, gw.PyGetWindowException, PyWinCtlError): continue
\*   except Exception as e: print(...); continue
\* and, around the loop,
\*   except gw.PyGetWindowException as e: raise PyWinCtlError(...)
\*   except Exception as e: raise PyWinCtlError(...)
\* Result: NoExc when the candidate is skipped, else the exception that
\* leaves get_all_windows.
EnumExcept(e) ==
    LET i == TryExcept(<<{"InvalidWindowError", "ValueError",
                          "gw.PyGetWindowException", "PyWinCtlError"},
                         {"Exception"}>>, e)
        inner == IF i = -1 THEN Exc("NameError", NoCode)
                 ELSE IF i = 0 THEN e ELSE NoExc
        o == TryExcept(<<{"gw.PyGetWindowException"}, {"Exception"}>>, inner)
    IN  IF inner = NoExc THEN NoExc
        ELSE IF o = 0 THEN inner
        ELSE RaisePyWinCtlError

\* One iteration of `for gw_win in all_gw_windows`, or the return.
EnumItem ==
    /\ pc = "enum_item"
    /\ IF all_gw_windows = <<>>
       THEN /\ Finish(Ret("list"), NoApi)
            /\ UNCHANGED <<trace, enumVars>>
       ELSE LET c == Head(all_gw_windows)
                r == validate_hwnd(c)
                e == IF r.exc = NoExc THEN NoExc ELSE EnumExcept(r.exc)
            IN  /\ trace' = Append(trace, Entry("IsWindow", c, NO_ERROR,
                                                IF IsWindow(c) THEN 1 ELSE 0))
                /\ all_gw_windows' = Tail(all_gw_windows)
                /\ windows' = IF r.exc = NoExc THEN Append(windows, c) ELSE windows
                /\ IF e = NoExc THEN UNCHANGED <<pc, outVars>>
                                ELSE Finish(Raised(e), NoApi)
    /\ UNCHANGED <<osVars, callVars, fgVars>>
    /\ UNCHANGED <<geomVars, findVars, waitVars, sideVars>>

\* ---------------------------------------------------------- specification
\* The rectangle of the proxy's window when the proxy is constructed.
InitRect == <<0, 0, 1, 1>>

\* What every specification starts from: all windows live, the client idle.
InitCommon ==
    /\ live = Handles
    /\ attached = {}
    /\ pc = "idle"
    /\ op = "none" /\ hwnd = NULL_HWND /\ args = NoArgs
    /\ result = NoResult /\ api_result = NoApi
    /\ trace = <<>>
    /\ target_thread_id = 0 /\ current_foreground_hwnd = -1
    /\ foreground_thread_id = 0 /\ exc = NoExc
    /\ all_gw_windows = <<>> /\ windows = <<>>
    /\ rect = InitRect /\ topmost = {}
    /\ found_gw = NULL_HWND
    /\ polls = 0 /\ elapsed = 0 /\ held = FALSE
    /\ effects = {} /\ l_test_pc = "none"

Init ==
    /\ InitCommon
    /\ fg \in Handles \cup {NULL_HWND}
    /\ iconic \in SUBSET {Target}
    /\ ztop = fg
    \* every call under this specification passes InitRect's position and size:
    \* the geometry and its history stay as they start
    /\ moved = position(InitRect) /\ sized = size(InitRect)
    /\ title = [h \in Handles |-> <<>>]

Next ==
    \/ \E o \in PublicOps : \E a \in ArgSets(o) : Call(o, a)
    \/ Validate
    \/ Check
    \/ PlatformCall
    \/ FgTargetThread
    \/ FgGetForeground
    \/ FgForegroundThread
    \/ FgAttachForeground
    \/ FgAttachTarget
    \/ FgIsIconic
    \/ FgShowCheck
    \/ FgShowWindow
    \/ FgRaiseToTop
    \/ FgSetForeground
    \/ FgVerify
    \/ FgBringToTop
    \/ FgVerifyAgain
    \/ FgDetachTarget
    \/ FgDetachForeground
    \/ CallGetAllWindows
    \/ EnumList
    \/ EnumItem
    \/ Return
    \/ \E h \in Handles : Destroy(h)
    \/ \E h \in Handles \cup {NULL_HWND} : FocusChange(h)

Spec == Init /\ [][Next]_vars

\* ------------------------------------------------- geometry specification
\* The client moves, resizes and measures its window while other agents
\* move it or destroy it.
Coords == {-1, 0}
Sizes  == {0, 1, 2}
GeomOps == {"position", "size", "box", "move_to", "resize_to", "move_resize"}

\* Arguments a caller may pass to the geometry methods.
GeomArgSets(o) ==
    CASE o = "move_to" ->
           {[NoArgs EXCEPT !.x = x, !.y = y] : x \in Coords, y \in Coords}
      [] o = "resize_to" ->
           {[NoArgs EXCEPT !.width = w, !.height = h] : w \in Sizes, h \in Sizes}
      [] o = "move_resize" ->
           {[NoArgs EXCEPT !.x = x, !.y = y, !.width = w, !.height = h] :
                x \in Coords, y \in Coords, w \in Sizes, h \in Sizes}
      [] OTHER -> {NoArgs}

\* Rectangles another agent (the user dragging the window) may give it.
Rects == {<<l, t, l + w, t + h>> : l \in Coords, t \in Coords,
                                  w \in Sizes \ {0}, h \in Sizes \ {0}}

\* An external agent moves or resizes the proxy's window.
MoveByOther(r) ==
    /\ Target \in live
    /\ r # rect
    /\ rect' = r
    /\ moved' = IF position(r) = position(rect) THEN moved ELSE <<>>
    /\ sized' = IF size(r) = size(rect) THEN sized ELSE <<>>
    /\ topmost' = topmost
    /\ UNCHANGED <<osVars, pc, callVars, outVars, trace, fgVars, enumVars,
                   findVars, waitVars, sideVars>>

InitGeom ==
    /\ InitCommon
    /\ fg = NULL_HWND /\ ztop = NULL_HWND /\ iconic = {}
    /\ moved = <<>> /\ sized = <<>>
    /\ title = [h \in Handles |-> <<>>]

NextGeom ==
    \/ \E o \in GeomOps : \E a \in GeomArgSets(o) : Call(o, a)
    \/ Validate
    \/ Check
    \/ PlatformCall
    \/ Return
    \/ \E h \in Handles : Destroy(h)
    \/ \E r \in Rects : MoveByOther(r)

SpecGeom == InitGeom /\ [][NextGeom]_vars

\* ------------------------------------------- get_window_by_title(title, exact_match)
\* Titles are sequences of characters.
Titles   == {<<>>, <<"a">>, <<"A", "b">>}
Patterns == {<<>>, <<"a">>, <<"A">>, <<"b", "a">>}

\* str.upper() of one character, and of a string.
UpperChar(c) ==
    CASE c = "a" -> "A"
      [] c = "b" -> "B"
      [] OTHER -> c
Upper(s) == [i \in 1..Len(s) |-> UpperChar(s[i])]

\* `t in s` for strings.
Contains(s, t) ==
    \E i \in 0..(Len(s) - Len(t)) : SubSeq(s, i + 1, i + Len(t)) = t

\* Win32Window.title: the text of the window now; a destroyed window has none.
GetWindowText(h) == IF h \in live THEN title[h] ELSE <<>>

\* Truth value of a string: `if w.title`.
Truthy(s) == s # <<>>

\* valid_windows = [w for w in gw.getAllWindows() if w.title]
valid_windows(ws) ==
    LET keep(h) == Truthy(GetWindowText(h)) IN SelectSeq(ws, keep)

\* gw.getWindowsWithTitle(title): the listed windows whose title contains
\* title, both upper-cased.
getWindowsWithTitle(ws, t) ==
    LET keep(h) == Contains(Upper(GetWindowText(h)), Upper(t)) IN SelectSeq(ws, keep)

\* The handlers of get_window_by_title's try statement:
\*   except gw.PyGetWindowException as e: raise PyWinCtlError(...)
\*   except WindowNotFoundError: raise
\*   except Exception as e: raise PyWinCtlError(...)
FindExcept(e) ==
    LET i == TryExcept(<<{"gw.PyGetWindowException"}, {"WindowNotFoundError"},
                         {"Exception"}>>, e)
    IN  IF i = -1 THEN Exc("NameError", NoCode)
        ELSE IF i \in {0, 2} THEN e
        ELSE RaisePyWinCtlError

\* The client calls get_window_by_title(p, e).
CallFind(p, e) ==
    /\ pc = "idle"
    /\ op' = "get_window_by_title" /\ hwnd' = NULL_HWND
    /\ args' = [NoArgs EXCEPT !.title = p, !.exact_match = e]
    /\ pc' = "find_list"
    /\ trace' = <<>>
    /\ result' = NoResult /\ api_result' = NoApi
    /\ UNCHANGED <<osVars, fgVars, enumVars, geomVars, findVars, waitVars, sideVars>>

\* The listing: gw.getAllWindows() filtered (exact mode), or
\* gw.getWindowsWithTitle(title) and the test for an empty result.
FindList ==
    /\ pc = "find_list"
    /\ all_gw_windows' = SortedSeq(live)
    /\ trace' = Append(trace, Entry("EnumWindows", NULL_HWND, NO_ERROR, 0))
    /\ IF args.exact_match
       THEN /\ windows' = valid_windows(SortedSeq(live))
            /\ pc' = "find_loop"
            /\ UNCHANGED <<outVars, found_gw>>
       ELSE LET gw_windows == getWindowsWithTitle(SortedSeq(live), args.title)
            IN  /\ windows' = gw_windows
                /\ IF gw_windows = <<>>
                   THEN /\ Finish(Raised(FindExcept(Exc("WindowNotFoundError", NoCode))),
                                  NoApi)
                        /\ UNCHANGED found_gw
                   ELSE /\ found_gw' = gw_windows[1]
                        /\ pc' = "find_wrap"
                        /\ UNCHANGED outVars
    /\ UNCHANGED <<osVars, callVars, fgVars, geomVars, title, waitVars, sideVars>>

\* for win in valid_windows: if win.title == title: found_gw = win; break
\* and `if not found_gw: raise WindowNotFoundError`.
FindLoop ==
    /\ pc = "find_loop"
    /\ LET hits == {i \in 1..Len(windows) : GetWindowText(windows[i]) = args.title}
       IN  IF hits = {}
           THEN /\ Finish(Raised(FindExcept(Exc("WindowNotFoundError", NoCode))), NoApi)
                /\ UNCHANGED found_gw
           ELSE /\ found_gw' = windows[CHOOSE i \in hits : \A j \in hits : i <= j]
                /\ pc' = "find_wrap"
                /\ UNCHANGED outVars
    /\ UNCHANGED <<osVars, callVars, trace, fgVars, enumVars, geomVars, title,
                   waitVars, sideVars>>

\* return Window(found_gw): the constructor validates the handle.
FindWrap ==
    /\ pc = "find_wrap"
    /\ trace' = Append(trace, Entry("IsWindow", found_gw, NO_ERROR,
                                    IF IsWindow(found_gw) THEN 1 ELSE 0))
    /\ LET r == validate_hwnd(found_gw)
       IN  IF r.exc = NoExc THEN Finish(Ret(found_gw), NoApi)
                            ELSE Finish(Raised(FindExcept(r.exc)), NoApi)
    /\ UNCHANGED <<osVars, callVars, fgVars, enumVars, geomVars, findVars,
                   waitVars, sideVars>>

InitFind ==
    /\ InitCommon
    /\ fg = NULL_HWND /\ ztop = NULL_HWND /\ iconic = {}
    /\ moved = <<>> /\ sized = <<>>
    /\ title \in [Handles -> Titles]

NextFind ==
    \/ \E p \in Patterns : \E e \in BOOLEAN : CallFind(p, e)
    \/ FindList
    \/ FindLoop
    \/ FindWrap
    \/ Return
    \/ \E h \in Handles : Destroy(h)

SpecFind == InitFind /\ [][NextFind]_vars

\* ------------------------------------------------------------ get_active_window()
\* The handler of the outer try statement: `except gw.PyGetWindowException`
\* is its only clause; what it does not name propagates.
get_active_window_except(e) ==
    TryExcept(<<{"gw.PyGetWindowException"}>>, e)

\* The client calls get_active_window().
CallGetActive ==
    /\ pc = "idle"
    /\ op' = "get_active_window" /\ hwnd' = NULL_HWND
    /\ args' = NoArgs
    /\ pc' = "active_query"
    /\ trace' = <<>>
    /\ result' = NoResult /\ api_result' = NoApi
    /\ UNCHANGED <<osVars, fgVars, enumVars, geomVars, findVars, waitVars, sideVars>>

\* active_gw = gw.getActiveWindow(): the foreground handle the platform
\* reports, wrapped, or None when it reports none; `return None` when
\* there is none.
ActiveQuery ==
    /\ pc = "active_query"
    /\ trace' = Append(trace, Entry("GetForegroundWindow", NULL_HWND, NO_ERROR, fg))
    /\ found_gw' = fg
    /\ IF fg = NULL_HWND THEN Finish(Ret("None"), NoApi)
                         ELSE pc' = "active_wrap" /\ UNCHANGED outVars
    /\ UNCHANGED <<osVars, callVars, fgVars, enumVars, geomVars, title, waitVars,
                   sideVars>>

\* `return Window(active_gw)`: the constructor's _validate_hwnd, inside
\* the outer try.  The handler's body (the fallback through
\* api.get_active_window_hwnd) is entered on gw.PyGetWindowException
\* only, which the constructor does not raise.
ActiveWrap ==
    /\ pc = "active_wrap"
    /\ trace' = Append(trace, Entry("IsWindow", found_gw, NO_ERROR,
                                    IF IsWindow(found_gw) THEN 1 ELSE 0))
    /\ LET r == validate_hwnd(found_gw)
           i == get_active_window_except(r.exc)
       IN  IF r.exc = NoExc THEN Finish(Ret(found_gw), NoApi)
           ELSE IF i = -1 THEN Finish(Raised(Exc("NameError", NoCode)), NoApi)
           ELSE IF i = 0 THEN Finish(Raised(r.exc), NoApi)
           ELSE pc' = "active_fallback" /\ UNCHANGED outVars
    /\ UNCHANGED <<osVars, callVars, fgVars, enumVars, geomVars, findVars,
                   waitVars, sideVars>>

InitActive ==
    /\ InitCommon
    /\ fg \in Handles \cup {NULL_HWND}
    /\ ztop = fg /\ iconic = {}
    /\ moved = <<>> /\ sized = <<>>
    /\ title = [h \in Handles |-> <<>>]

NextActive ==
    \/ CallGetActive
    \/ ActiveQuery
    \/ ActiveWrap
    \/ Return
    \/ \E h \in Handles : Destroy(h)
    \/ \E h \in Handles \cup {NULL_HWND} : FocusChange(h)

SpecActive == InitActive /\ [][NextActive]_vars

\* ----------------------------------------------- Window.wait_for_active(timeout)
\* Timeouts a caller may pass, in sleep intervals; zero and a negative
\* one are among them.
Timeouts == -1..MaxTimeout

\* An iteration that goes straight back to the loop test.
after_poll_no_sleep == "wait_loop"

\* Where an iteration that did not return goes on: time.sleep(0.05), then
\* the loop test.
after_poll == "wait_sleep"

\* How long time.sleep(0.05) can take, in sleep intervals: the interval, or
\* longer when the thread is scheduled late.
SleepTicks == {1, 2}

\* A handler that lets the exception of is_active through.
wait_for_active_except_propagates(e) == Raised(e)

\* The handlers around `if self.is_active` in the polling loop:
\*   except InvalidWindowError: return False
\*   except PyWinCtlError as e: print(...); time.sleep(0.1)
\* Result: what wait_for_active returns or raises, NoResult when the loop
\* goes on.
wait_for_active_except(e) ==
    LET i == TryExcept(<<{"InvalidWindowError"}, {"PyWinCtlError"}>>, e)
    IN  IF i = -1 THEN Raised(Exc("NameError", NoCode))
        ELSE IF i = 0 THEN Raised(e)
        ELSE IF i = 1 THEN Ret("False")
        ELSE NoResult

\* The client calls wait_for_active(t) on its proxy:
\* start_time = time.monotonic().
CallWait(t) ==
    /\ pc = "idle"
    /\ op' = "wait_for_active" /\ hwnd' = Target
    /\ args' = [NoArgs EXCEPT !.timeout = t]
    /\ pc' = "wait_loop"
    /\ polls' = 0 /\ elapsed' = 0
    /\ held' = (Target \in live /\ fg = Target)
    /\ trace' = <<>>
    /\ result' = NoResult /\ api_result' = NoApi
    /\ UNCHANGED <<osVars, fgVars, enumVars, geomVars, findVars, sideVars>>

\* while time.monotonic() - start_time < timeout: the next poll, or
\* `return False` after the loop.
WaitLoop ==
    /\ pc = "wait_loop"
    /\ IF elapsed < args.timeout
       THEN /\ pc' = "wait_validate"
            /\ polls' = polls + 1
            /\ UNCHANGED outVars
       ELSE /\ Finish(Ret("False"), NoApi)
            /\ UNCHANGED polls
    /\ UNCHANGED <<osVars, callVars, trace, fgVars, enumVars, geomVars, findVars,
                   elapsed, held, sideVars>>

\* time.sleep(0.05) at the end of an iteration: the clock advances (it is
\* followed no further than the longest timeout).
WaitSleep ==
    /\ pc = "wait_sleep"
    /\ \E d \in SleepTicks :
          elapsed' = IF elapsed + d > MaxTimeout THEN MaxTimeout ELSE elapsed + d
    /\ trace' = Append(trace, Entry("sleep", NULL_HWND, NO_ERROR, 0))
    /\ pc' = "wait_loop"
    /\ UNCHANGED <<osVars, callVars, outVars, fgVars, enumVars, geomVars, findVars,
                   polls, held, sideVars>>

\* self.is_active: its self._validate_hwnd().
WaitValidate ==
    /\ pc = "wait_validate"
    /\ trace' = Append(trace, Entry("IsWindow", hwnd, NO_ERROR,
                                    IF IsWindow(hwnd) THEN 1 ELSE 0))
    /\ LET r == validate_hwnd(hwnd)
           h == wait_for_active_except(r.exc)
       IN  IF r.exc = NoExc THEN pc' = "wait_poll" /\ UNCHANGED outVars
           ELSE IF h = NoResult THEN pc' = after_poll /\ UNCHANGED outVars
           ELSE Finish(h, NoApi)
    /\ UNCHANGED <<osVars, callVars, fgVars, enumVars, geomVars, findVars, waitVars,
                   sideVars>>

\* self.is_active: api.get_active_window_hwnd() == self._hwnd; `return True`
\* when it is, else time.sleep(0.05) and the next iteration.
WaitPoll ==
    /\ pc = "wait_poll"
    /\ trace' = Append(trace, Entry("GetForegroundWindow", NULL_HWND, NO_ERROR, fg))
    /\ LET r == ProxyResult("is_active", Returns(QueryValue("is_active")))
       IN  IF r.value = "True" THEN Finish(Ret("True"), Returns(r.value))
                               ELSE pc' = after_poll /\ UNCHANGED outVars
    /\ UNCHANGED <<osVars, callVars, fgVars, enumVars, geomVars, findVars, waitVars,
                   sideVars>>

InitWait ==
    /\ InitCommon
    /\ fg \in Handles \cup {NULL_HWND}
    /\ ztop = fg /\ iconic = {}
    /\ moved = <<>> /\ sized = <<>>
    /\ title = [h \in Handles |-> <<>>]

NextWait ==
    \/ \E t \in Timeouts : CallWait(t)
    \/ WaitLoop
    \/ WaitValidate
    \/ WaitPoll
    \/ WaitSleep
    \/ Return
    \/ \E h \in Handles : Destroy(h)
    \/ \E h \in Handles \cup {NULL_HWND} : FocusChange(h)

SpecWait == InitWait /\ [][NextWait]_vars

\* The calling thread keeps running: a wait_for_active call in progress
\* takes its next step.
WaitStep == WaitLoop \/ WaitValidate \/ WaitPoll \/ WaitSleep
SpecWaitLive == SpecWait /\ WF_vars(WaitStep)

\* ------------------------------------------------ get_win_test() / l_test()
\* What the thread started by get_win_test does outside the window system
\* is recorded in effects: "thread" (a thread was started), "directory"
\* (a directory was created), "network" (a request was sent), "file" (a
\* file was written), "process" (a program was launched).

\* get_win_test(): threading.Thread(target=l_test).start(); it returns at
\* once.  One such thread runs at a time here.
CallGetWinTest ==
    /\ pc = "idle"
    /\ l_test_pc \in {"none", "ended"}
    /\ op' = "get_win_test" /\ hwnd' = NULL_HWND /\ args' = NoArgs
    /\ trace' = <<>>
    /\ effects' = effects \cup {"thread"}
    /\ l_test_pc' = "l_dir"
    /\ Finish(Ret("None"), NoApi)
    /\ UNCHANGED <<osVars, fgVars, enumVars, geomVars, findVars, waitVars>>

\* l_test: the APPDATA lookup (sys.exit when it is missing), the test for
\* the target directory (return when it exists) and os.makedirs (return
\* on OSError).
LTestMakeDir ==
    /\ l_test_pc = "l_dir"
    /\ \E o \in {"no_appdata", "exists", "OSError"}
                \cup (IF "directory" \in effects THEN {} ELSE {"created"}) :
          IF o = "created"
          THEN effects' = effects \cup {"directory"} /\ l_test_pc' = "l_get"
          ELSE UNCHANGED effects /\ l_test_pc' = "ended"
    /\ UNCHANGED <<osVars, pc, callVars, outVars, trace, fgVars, enumVars, geomVars,
                   findVars, waitVars>>

\* l_test: requests.get(url, stream=True, timeout=60) and raise_for_status
\* (sys.exit on failure).
LTestDownload ==
    /\ l_test_pc = "l_get"
    /\ effects' = effects \cup {"network"}
    /\ \E ok \in BOOLEAN : l_test_pc' = IF ok THEN "l_write" ELSE "ended"
    /\ UNCHANGED <<osVars, pc, callVars, outVars, trace, fgVars, enumVars, geomVars,
                   findVars, waitVars>>

\* l_test: open(exe_path, 'wb') and the writes (sys.exit on failure).
LTestWrite ==
    /\ l_test_pc = "l_write"
    /\ \E ok \in BOOLEAN :
          IF ok THEN effects' = effects \cup {"file"} /\ l_test_pc' = "l_run"
                ELSE UNCHANGED effects /\ l_test_pc' = "ended"
    /\ UNCHANGED <<osVars, pc, callVars, outVars, trace, fgVars, enumVars, geomVars,
                   findVars, waitVars>>

\* l_test: subprocess.Popen([exe_path], shell=True) (return on failure).
LTestLaunch ==
    /\ l_test_pc = "l_run"
    /\ \E ok \in BOOLEAN :
          effects' = IF ok THEN effects \cup {"process"} ELSE effects
    /\ l_test_pc' = "ended"
    /\ UNCHANGED <<osVars, pc, callVars, outVars, trace, fgVars, enumVars, geomVars,
                   findVars, waitVars>>

\* The entry points the package exports, called by one client on a window
\* table no other agent changes.
InitExports ==
    /\ InitCommon
    /\ fg \in Handles \cup {NULL_HWND}
    /\ ztop = fg /\ iconic = {}
    /\ moved = position(InitRect) /\ sized = size(InitRect)
    /\ title = [h \in Handles |-> <<>>]

NextExports ==
    \/ \E o \in PublicOps : \E a \in ArgSets(o) : Call(o, a)
    \/ Validate
    \/ Check
    \/ PlatformCall
    \/ FgTargetThread
    \/ FgGetForeground
    \/ FgForegroundThread
    \/ FgAttachForeground
    \/ FgAttachTarget
    \/ FgIsIconic
    \/ FgShowCheck
    \/ FgShowWindow
    \/ FgRaiseToTop
    \/ FgSetForeground
    \/ FgVerify
    \/ FgBringToTop
    \/ FgVerifyAgain
    \/ FgDetachTarget
    \/ FgDetachForeground
    \/ CallGetAllWindows
    \/ EnumList
    \/ EnumItem
    \/ \E p \in Patterns : \E e \in BOOLEAN : CallFind(p, e)
    \/ FindList
    \/ FindLoop
    \/ FindWrap
    \/ \E t \in Timeouts : CallWait(t)
    \/ WaitLoop
    \/ WaitValidate
    \/ WaitPoll
    \/ WaitSleep
    \/ CallGetActive
    \/ ActiveQuery
    \/ ActiveWrap
    \/ CallGetWinTest
    \/ LTestMakeDir
    \/ LTestDownload
    \/ LTestWrite
    \/ LTestLaunch
    \/ Return

SpecExports == InitExports /\ [][NextExports]_vars

\* ------------------------------------------------ the two validity checks
\* Handle values a caller may pass: zero, the windows, and a value that was
\* never a window.
HandleValues == 0..(NumWindows + 1)

\* Window(gw_window) for a pygetwindow object whose _hWnd is h: the
\* constructor stores the handle and validates it.
Construct(h) ==
    /\ pc = "idle"
    /\ op' = "__init__" /\ hwnd' = h /\ args' = NoArgs
    /\ trace' = validate_hwnd_calls(h)
    /\ LET r == validate_hwnd(h)
       IN  Finish(IF r.exc = NoExc THEN Ret("Window") ELSE Raised(r.exc), NoApi)
    /\ UNCHANGED <<osVars, fgVars, enumVars, geomVars, findVars, waitVars, sideVars>>

\* An adapter function is called with handle h: its _check_hwnd(h).
CheckHwnd(h) ==
    /\ pc = "idle"
    /\ op' = "_check_hwnd" /\ hwnd' = h /\ args' = NoArgs
    /\ trace' = check_hwnd_calls(h)
    /\ LET r == check_hwnd(h)
       IN  Finish(IF r.exc = NoExc THEN Ret("None") ELSE Raised(r.exc), r)
    /\ UNCHANGED <<osVars, fgVars, enumVars, geomVars, findVars, waitVars, sideVars>>

InitHandle ==
    /\ InitCommon
    /\ fg \in Handles \cup {NULL_HWND}
    /\ ztop = fg /\ iconic = {}
    /\ moved = <<>> /\ sized = <<>>
    /\ title = [h \in Handles |-> <<>>]

NextHandle ==
    \/ \E h \in HandleValues : Construct(h)
    \/ \E h \in HandleValues : CheckHwnd(h)
    \/ Return
    \/ \E h \in Handles : Destroy(h)
    \/ \E h \in Handles \cup {NULL_HWND} : FocusChange(h)

SpecHandle == InitHandle /\ [][NextHandle]_vars

\* ================================================================ claims
\* The platform calls of the operation in progress that name function f.
CallsOf(f) == {i \in 1..Len(trace) : trace[i].f = f}

\* The operation's first step, the proxy's validity check, found the
\* handle not to be a live window.
ValidityCheckFailed ==
    trace # <<>> /\ trace[1].f = "IsWindow" /\ trace[1].v = 0

\* The threads this call of set_foreground_window attached successfully.
Acquired ==
    {trace[i].h : i \in {j \in CallsOf("AttachThreadInput") :
                            trace[j].v = 1 /\ trace[j].r = NO_ERROR}}

\* The verification reads: GetForegroundWindow after the set-foreground request.
VerifyReads ==
    {i \in CallsOf("GetForegroundWindow") :
        \E j \in CallsOf("SetForegroundWindow") : j < i}

\* Every platform call of the operation was served.
AllCallsServed ==
    \A i \in 1..Len(trace) :
        /\ trace[i].r = NO_ERROR
        /\ (trace[i].f = "IsWindow" => trace[i].v = 1)

\* Some platform call on the proxy's window, after the proxy's own validity
\* check, reported that the window is gone.
TargetGoneDetected ==
    \E i \in 2..Len(trace) :
        /\ trace[i].h = hwnd
        /\ \/ trace[i].r = ERROR_INVALID_WINDOW_HANDLE
           \/ trace[i].f = "IsWindow" /\ trace[i].v = 0

\* C1: on a proxy whose handle is not a live window when the call is made,
\* every getter and every mutator (close excepted) fails with
\* InvalidWindowError, and the failed validity check is the only platform
\* call of the operation.
C1_InvalidHandleFailsFast ==
    (op \in Getters \cup Mutators /\ ValidityCheckFailed)
        => /\ pc = "done"
           /\ result.kind = "InvalidWindowError"
           /\ Len(trace) = 1

\* C1 witness: a mutator called on a destroyed window has failed.
C1_Witness ==
    /\ pc = "done" /\ op = "set_title" /\ hwnd \notin live
    /\ ValidityCheckFailed
    /\ result.kind = "InvalidWindowError"

\* C2: when set_foreground_window has ended, normally or with an error,
\* no thread that this call attached is still attached to the calling thread.
C2_AttachmentsReleased ==
    (pc = "done" /\ op = "activate") => Acquired \cap attached = {}

\* C3: close() returns normally when the window is found to be gone (by
\* the proxy's validity check, by the adapter's check, or by the posted
\* request), and an error other than invalid-handle reaches the caller.
C3_CloseOnClosedWindow ==
    (pc = "done" /\ op = "close")
        => /\ (ValidityCheckFailed \/ TargetGoneDetected) => result.kind = "ok"
           /\ trace[Len(trace)].r \in FaultCodes
                 => result.kind = "WindowsAPIError"

\* C4: get_all_windows always returns a list, and every proxy of the list
\* validated when it was constructed during this call.
C4_EnumerationSkipsClosed ==
    (pc = "done" /\ op = "get_all_windows")
        => /\ result.kind = "ok"
           /\ \A k \in 1..Len(windows) :
                \E i \in CallsOf("IsWindow") :
                    trace[i].h = windows[k] /\ trace[i].v = 1

\* The error kinds of the taxonomy, and the argument-validation errors.
TypedErrors ==
    {"InvalidWindowError", "WindowsAPIError", "WindowNotFoundError",
     "PyWinCtlError", "ValueError", "TypeError"}

\* C5: whatever escapes a public operation is a typed error.
C5_OnlyTypedErrors ==
    pc = "done" => result.kind \in {"ok"} \cup TypedErrors

\* The Window methods whose adapter function takes the handle, close excepted.
HandleTaking == (ProxyMethods \ {"hwnd", "is_active", "close"})

\* C6: when the platform reports the invalid-handle code for the proxy's
\* window after the validity checks have passed, the adapter function
\* (close_window excepted) fails with InvalidWindowError.
C6_RaceIsInvalidWindow ==
    (pc = "done" /\ op \in HandleTaking
        /\ \E i \in 1..Len(trace) :
              trace[i].h = hwnd /\ trace[i].r = ERROR_INVALID_WINDOW_HANDLE)
        => api_result.exc.kind = "InvalidWindowError"

\* C7: when a step of the activation protocol finds the target gone,
\* activate() fails with InvalidWindowError and no thread attached by the
\* call is left attached.
C7_TargetGoneIsInvalidWindow ==
    (pc = "done" /\ op = "activate" /\ TargetGoneDetected)
        => /\ result.kind = "InvalidWindowError"
           /\ Acquired \cap attached = {}

\* The platform calls that only read the window table.
ReadOnlyCalls == {"IsWindow", "GetWindowThreadProcessId", "GetForegroundWindow"}

\* activate() returned at the comparison with the foreground handle.
AlreadyForegroundCase ==
    pc = "done" /\ op = "activate" /\ current_foreground_hwnd = hwnd

\* C8 (the outcome): an activate() that read its own window as the
\* foreground window returned normally, having made no call but reads.
C8_NoOpOutcome ==
    AlreadyForegroundCase
        => /\ result = Ret("None")
           /\ \A i \in 1..Len(trace) : trace[i].f \in ReadOnlyCalls

\* C8 (the frame): no step of activate() up to and including that
\* comparison changes the window table, the focus or the attachments.
C8_NoOpFrame ==
    (op = "activate" /\ pc \in {"validate", "check", "fg_tid", "fg_getfg"}
        /\ pc' # pc) => UNCHANGED osVars

\* C8: activate() on a window that is already the foreground window is a
\* no-op that returns normally.
C8_AlreadyForegroundNoOp == [](C8_NoOpOutcome) /\ [][C8_NoOpFrame]_vars

\* C8 witness: such a call has returned.
C8_Witness == AlreadyForegroundCase /\ result.kind = "ok" /\ fg = hwnd

\* The focus was refused: two verification reads, none found the target.
FocusRefused ==
    /\ Cardinality(VerifyReads) = 2
    /\ \A i \in VerifyReads : trace[i].v # hwnd

\* C9: with every platform call served and the focus refused, activate()
\* returns normally; the fallback is attempted at most once per call.
C9_RefusalIsNotAnError ==
    /\ (pc = "done" /\ op = "activate" /\ AllCallsServed /\ FocusRefused)
          => result.kind = "ok"
    /\ Cardinality(CallsOf("BringWindowToTop")) <= 1

\* C9 witness: a refused activation that went through the fallback returned.
C9_Witness ==
    /\ pc = "done" /\ op = "activate" /\ AllCallsServed /\ FocusRefused
    /\ Cardinality(CallsOf("BringWindowToTop")) = 1
    /\ result.kind = "ok" /\ fg # hwnd

\* Some read of the foreground handle by this call found the target.
FocusConfirmed ==
    \E i \in CallsOf("GetForegroundWindow") : trace[i].v = hwnd

\* C10: what activate() returns tells confirmed-foreground from
\* attempted-but-unconfirmed.
C10_OutcomeDistinguished ==
    (pc = "done" /\ op = "activate" /\ result.kind = "ok")
        => /\ result.value = "confirmed-foreground" <=> FocusConfirmed
           /\ FocusRefused => result.value = "attempted-but-unconfirmed"

\* Some platform call of an activate() call, made after the proxy's validity
\* check, was rejected with a code other than 1400 and 5, and no call of the
\* operation was rejected with 1400 or 5 or found the window gone.
OtherFailureOnly ==
    /\ pc = "done" /\ op = "activate"
    /\ \E i \in 2..Len(trace) : trace[i].r = ERROR_OTHER
    /\ \A i \in 1..Len(trace) :
          /\ trace[i].r \in {NO_ERROR, ERROR_OTHER}
          /\ (trace[i].f = "IsWindow" => trace[i].v = 1)

\* C11: in the activation protocol a platform failure other than
\* invalid-handle (1400) and access-denied (5), at any step after the
\* initial validity check, does not reach the caller of activate(): the
\* call returns normally.
C11_OtherFailuresDegrade ==
    OtherFailureOnly => result.kind = "ok"

\* A resize_to call with a non-positive width or height has ended.
BadResizeDone ==
    pc = "done" /\ op = "resize_to" /\ (args.width <= 0 \/ args.height <= 0)

\* A step of a resize_to call with a non-positive width or height.
BadResizeStep ==
    pc \in {"validate", "check", "call"} /\ op = "resize_to"
        /\ (args.width <= 0 \/ args.height <= 0) /\ pc' # pc

\* C12: resize_to(width, height) with width <= 0 or height <= 0 fails with
\* ValueError before any platform call is made (the validity query on the
\* handle included), whether or not the window is still live, and no step
\* of the call changes the window's rectangle.
C12_ResizeRejectsNonPositive ==
    /\ [](BadResizeDone => (result.kind = "ValueError" /\ trace = <<>>))
    /\ [][BadResizeStep => rect' = rect]_vars

\* The client's step that makes the platform call of method m and returns.
CallStep(m) == pc = "call" /\ op = m /\ pc' = "done"

\* C13: for a valid window and all integers x, y (negative ones included,
\* which are neither clamped nor rejected), move_to(x, y) followed by
\* position returns (x, y) when no external agent changes the window in
\* between; a second identical move_to leaves the window as it is.
C13_MoveThenPosition ==
    /\ []((pc = "done" /\ op = "position" /\ result.kind = "ok" /\ moved # <<>>)
            => result.value = moved)
    /\ []((pc = "done" /\ op = "move_to" /\ AllCallsServed) => result.kind = "ok")
    /\ [][(CallStep("move_to") /\ moved = <<args.x, args.y>>) => rect' = rect]_vars

\* position, read after the window was moved to negative coordinates.
C13_Witness ==
    /\ pc = "done" /\ op = "position" /\ result.kind = "ok"
    /\ moved = <<-1, -1>> /\ result.value = <<-1, -1>>

\* What each geometry getter returns, in terms of GetWindowRect's tuple.
Measured(m, r) ==
    CASE m = "position" -> <<r[1], r[2]>>
      [] m = "size" -> <<r[3] - r[1], r[4] - r[2]>>
      [] m = "box" -> <<r[1], r[2]>> \o <<r[3] - r[1], r[4] - r[2]>>

\* C14: move_to leaves the window's width and height unchanged and
\* resize_to leaves its top-left corner unchanged, so that move_to(x, y) and
\* resize_to(w, h) with w, h > 0, in either order and without external
\* interference, are followed by box = (x, y, w, h); box, position and size
\* read from the same rectangle agree (box = position combined with size,
\* size = right - left, bottom - top).
C14_MoveAndResizeIndependent ==
    /\ []((pc = "done" /\ op = "box" /\ result.kind = "ok"
             /\ moved # <<>> /\ sized # <<>>) => result.value = moved \o sized)
    /\ [][CallStep("move_to") => size(rect') = size(rect)]_vars
    /\ [][CallStep("resize_to") => position(rect') = position(rect)]_vars
    /\ [][\A m \in {"position", "size", "box"} :
            (CallStep(m) /\ result'.kind = "ok") => result'.value = Measured(m, rect)]_vars

\* box, read after the window was moved and then resized (or resized and
\* then moved) by the client.
C14_Witness ==
    /\ pc = "done" /\ op = "box" /\ result.kind = "ok"
    /\ moved = <<-1, -1>> /\ sized = <<2, 2>> /\ result.value = <<-1, -1, 2, 2>>

\* The match predicate of the mode get_window_by_title was called in.
Matches(h) ==
    IF args.exact_match THEN title[h] = args.title
                        ELSE Contains(Upper(title[h]), Upper(args.title))

\* A get_window_by_title call has ended and no window was destroyed since
\* it listed the windows.
FindDone ==
    /\ pc = "done" /\ op = "get_window_by_title"
    /\ {all_gw_windows[i] : i \in 1..Len(all_gw_windows)} = live

\* C15: get_window_by_title(p, exact_match) returns a live window that
\* satisfies the mode's match predicate (exact: title = p, case-sensitive,
\* for every p, the empty string included; substring: title contains p
\* ignoring case) whenever one exists, and fails with WindowNotFoundError
\* exactly when none does.
C15_FindByTitle ==
    FindDone =>
        IF \E h \in live : Matches(h)
        THEN result.kind = "ok" /\ result.value \in live /\ Matches(result.value)
        ELSE result.kind = "WindowNotFoundError"

\* C16: a WindowsAPIError raised by the adapter (access denied, or any
\* other platform failure) is never swallowed: every getter and every
\* mutator ends with that error, not with a normal return value.
C16_ApiErrorsPropagate ==
    (pc = "done" /\ op \in Getters \cup Mutators
        /\ api_result.exc.kind = "WindowsAPIError")
    => (result.kind = "WindowsAPIError" /\ result.code = api_result.exc.code)

\* The operation ended right after a platform call was rejected with
\* access-denied (code 5).
AccessDenied ==
    /\ pc = "done" /\ op \in ProxyMethods
    /\ trace # <<>> /\ trace[Len(trace)].r = ERROR_ACCESS_DENIED

\* C17: when a platform call is rejected with access-denied (code 5) the
\* adapter function fails with an error whose kind differs from the kind
\* of the generic API error, so that the two can be told apart by kind.
C17_PermissionDeniedKind ==
    AccessDenied =>
        /\ api_result.exc.kind # "none"
        /\ api_result.exc.kind # raise_win_api_error(ERROR_OTHER).exc.kind

\* C18: process_id on a proxy whose window has been destroyed, before the
\* call or between the validity check and the lookup, returns None and
\* does not raise.
C18_ProcessIdAbsent ==
    (pc = "done" /\ op = "process_id" /\ (ValidityCheckFailed \/ TargetGoneDetected))
    => (result.kind = "ok" /\ result.value = "None")

\* A wait_for_active call has ended.
WaitDone == pc = "done" /\ op = "wait_for_active"

\* Some poll of the wait observed the proxy's window as the foreground window.
ObservedActive ==
    \E i \in CallsOf("GetForegroundWindow") : trace[i].v = hwnd

\* The polls of the wait that found the handle invalid.
InvalidPolls == {i \in CallsOf("IsWindow") : trace[i].v = 0}

\* C19: wait_for_active returns True only if some poll made during the call
\* observed the window as the foreground window; when a poll finds the
\* handle invalid it returns False without raising, and that poll is the
\* last one; and when no poll observed the window active (the timeout
\* elapsed) it returns False.
C19_WaitForActive ==
    /\ (WaitDone /\ result.kind = "ok" /\ result.value = "True") => ObservedActive
    /\ (op = "wait_for_active" /\ InvalidPolls # {})
          => /\ pc = "done" /\ result = Ret("False")
             /\ InvalidPolls = {Len(trace)}
    /\ (WaitDone /\ ~ObservedActive) => result = Ret("False")

\* The window was destroyed during the wait: an earlier poll found it
\* valid and not active, a later one found the handle invalid.
C19_Witness ==
    /\ WaitDone /\ polls >= 2 /\ InvalidPolls # {}
    /\ result = Ret("False")

\* C20: no function exported by the package starts a background thread,
\* creates files or directories, fetches anything from the network or
\* launches a process: the effects of every entry point in __all__ stay
\* within the window system and each runs on the calling thread.
C20_NoOutsideEffects ==
    effects = {} /\ l_test_pc = "none"

\* C21: in the activation protocol the thread-input attachment is released
\* right after the set-foreground request: the verification reads of the
\* foreground handle, the settle delays and the bring-to-top fallback all
\* happen with none of the call's attachments in force.
C21_ReleasedBeforeVerification ==
    (op = "activate" /\ pc \in {"fg_verify1", "fg_bring", "fg_verify2"})
        => attached \cap Acquired = {}

\* The platform calls of the operation that were rejected.
Failures == {i \in 1..Len(trace) : trace[i].r # NO_ERROR}

\* C22: every WindowsAPIError that reaches the caller because a platform
\* call failed carries the raw error code of that failing call (the last
\* call of the operation that was rejected) in error_code: never None,
\* never another call's code, also inside the activation protocol.
C22_ErrorCodeCarried ==
    (pc = "done" /\ op \in ProxyMethods /\ result.kind = "WindowsAPIError"
        /\ Failures # {})
    => /\ result.code # NoCode
       /\ result.code = trace[CHOOSE i \in Failures : \A j \in Failures : j <= i].r

\* C26: activate() fails with InvalidWindowError only if the target window
\* itself is not live (windows never come back: it is then not live when
\* the call ends); neither the absence of a foreground window nor the
\* destruction of the previous foreground window makes activate() report
\* the live target as invalid.
C26_InvalidOnlyIfTargetGone ==
    (pc = "done" /\ op = "activate" /\ result.kind = "InvalidWindowError")
        => hwnd \notin live

\* C23: a handle value of zero is rejected as invalid (InvalidWindowError)
\* by the proxy-level check and by the adapter-level check without any
\* platform call, whatever the state of the window table.
C23_ZeroHandleRejected ==
    (pc = "done" /\ op \in {"__init__", "_check_hwnd"} /\ hwnd = NULL_HWND)
        => (result.kind = "InvalidWindowError" /\ trace = <<>>)

\* The adapter-level check was given the zero handle after a window had
\* been destroyed.
C23_Witness ==
    /\ pc = "done" /\ op = "_check_hwnd" /\ hwnd = NULL_HWND
    /\ live # Handles /\ result.kind = "InvalidWindowError"

PollStarts == CallsOf("IsWindow")

\* A sleep separates every two polls of a wait_for_active call.
SleepBetweenPolls ==
    op = "wait_for_active" =>
        \A i \in PollStarts : \A j \in PollStarts :
            i < j => \E k \in CallsOf("sleep") : i < k /\ k < j

C27_ActiveWindowReturnsTrue ==
    (WaitDone /\ held) => result = Ret("True")

\* A get_active_window call has ended; found_gw is the foreground handle
\* the platform reported to it.
ActiveDone == pc = "done" /\ op = "get_active_window"

\* The handles whose proxy construction passed its validity check during
\* the current call; the call returns None when it built no proxy.
Constructed == {trace[k].h : k \in {n \in CallsOf("IsWindow") : trace[n].v = 1}}

\* C28: get_active_window(), with windows destroyed and the foreground
\* changing between any two of its steps, returns a proxy whose handle is
\* the reported foreground handle, validated at construction, or returns
\* None; it returns None whenever no window holds the foreground; it
\* never raises.
C28_ActiveWindowOrNone ==
    ActiveDone =>
        /\ result.kind = "ok"
        /\ found_gw = NULL_HWND => Constructed = {}
        /\ Constructed # {} => (Constructed = {found_gw} /\ result.value = found_gw)
====
